---- MODULE Spec2Model ----
(***************************************************************************)
(* Model of hook_odyssey: the streaming-session gate of GraphQLClient      *)
(* (graphql.py), the order path of OdysseyClient (client.py), the signer   *)
(* (signing.py) and the fixed-point codec (types.py).                      *)
(***************************************************************************)
EXTENDS Integers, Sequences, FiniteSets, TLC

(***************************************************************************)
(* Bounds                                                                  *)
(***************************************************************************)
NumCallers == 2
MaxEvents == 2
NumTasks == 2
MaxQueries == 1
MaxMutations == 1
MaxSignCalls == 3
MaxDigits == 29
MaxFrac == 19

Callers == 1..NumCallers

Tasks == 1..NumTasks

None == 0

(***************************************************************************)
(* Numbers.  A Python int is [neg, mag] with mag its decimal digits, most  *)
(* significant first and without leading zeros; a Decimal is               *)
(* [sign, coef, exp] as in Decimal.as_tuple(): (-1)^sign * coef * 10^exp.  *)
(* A str is a sequence of one-character strings.                           *)
(***************************************************************************)
Scale == 18   \* types.py:80,90  10**18
Prec == 28    \* precision of the decimal context the module computes in (the default one)

DigitChars == <<"0", "1", "2", "3", "4", "5", "6", "7", "8", "9">>

Zeros(k) == [i \in 1..k |-> 0]

IsZero(ds) == \A i \in 1..Len(ds) : ds[i] = 0

RECURSIVE StripLeading(_)
StripLeading(ds) ==
    IF Len(ds) > 1 /\ ds[1] = 0 THEN StripLeading(Tail(ds)) ELSE ds

RECURSIVE Incr(_)
\* ds + 1 on digit sequences
Incr(ds) ==
    IF ds = <<>> THEN <<1>>
    ELSE IF ds[Len(ds)] < 9
         THEN [ds EXCEPT ![Len(ds)] = ds[Len(ds)] + 1]
         ELSE Append(Incr(SubSeq(ds, 1, Len(ds) - 1)), 0)

PyInt(neg, mag) ==
    [neg |-> neg /\ ~IsZero(mag), mag |-> StripLeading(mag)]

CharDigit(ch) == CHOOSE d \in 0..9 : DigitChars[d + 1] = ch

IsDigitChar(ch) == \E d \in 0..9 : DigitChars[d + 1] = ch

\* str(n) for an int n
IntStr(n) ==
    (IF n.neg THEN <<"-">> ELSE <<>>) \o [i \in 1..Len(n.mag) |-> DigitChars[n.mag[i] + 1]]

\* int(s) for a str s: ok is FALSE where int() raises ValueError
ParseInt(s) ==
    LET neg == s # <<>> /\ s[1] = "-"
        body == IF neg THEN Tail(s) ELSE s
        ok == body # <<>> /\ \A i \in 1..Len(body) : IsDigitChar(body[i])
    IN [ok |-> ok,
        val |-> IF ok THEN PyInt(neg, [i \in 1..Len(body) |-> CharDigit(body[i])])
                ELSE PyInt(FALSE, <<0>>)]

\* Decimal(n) for an int n
DecimalOfInt(n) == [sign |-> IF n.neg THEN 1 ELSE 0, coef |-> n.mag, exp |-> 0]

\* Rounding of a result to the context precision, ROUND_HALF_EVEN
RoundToPrec(d) ==
    IF Len(d.coef) <= Prec THEN d
    ELSE LET kept == SubSeq(d.coef, 1, Prec)
             rest == SubSeq(d.coef, Prec + 1, Len(d.coef))
             tailZero == IsZero(Tail(rest))
             up == \/ rest[1] > 5
                   \/ rest[1] = 5 /\ ~tailZero
                   \/ rest[1] = 5 /\ tailZero /\ kept[Prec] % 2 = 1
             bumped == IF up THEN Incr(kept) ELSE kept
             drop == Len(d.coef) - Prec
         IN IF Len(bumped) > Prec
            THEN [sign |-> d.sign, coef |-> SubSeq(bumped, 1, Prec), exp |-> d.exp + drop + 1]
            ELSE [sign |-> d.sign, coef |-> bumped, exp |-> d.exp + drop]

\* d * Decimal(10**k): the coefficients multiply, the exponents add, the context rounds
MulPow10(d, k) ==
    RoundToPrec([sign |-> d.sign,
                 coef |-> IF IsZero(d.coef) THEN <<0>> ELSE d.coef \o Zeros(k),
                 exp |-> d.exp])

RECURSIVE ReduceToIdeal(_)
\* an exact quotient is brought as close to the ideal exponent 0 as its zeros allow
ReduceToIdeal(d) ==
    IF d.exp < 0 /\ Len(d.coef) > 1 /\ d.coef[Len(d.coef)] = 0
    THEN ReduceToIdeal([d EXCEPT !.coef = SubSeq(d.coef, 1, Len(d.coef) - 1),
                                 !.exp = d.exp + 1])
    ELSE d

\* d / Decimal(10**k)
DivPow10(d, k) ==
    RoundToPrec(ReduceToIdeal([sign |-> d.sign, coef |-> d.coef,
                               exp |-> IF IsZero(d.coef) THEN 0 ELSE d.exp - k]))

\* int(d) for a Decimal d: truncation towards zero
IntOfDecimal(d) ==
    IF d.exp >= 0 THEN PyInt(d.sign = 1, d.coef \o Zeros(d.exp))
    ELSE IF -d.exp >= Len(d.coef) THEN PyInt(FALSE, <<0>>)
    ELSE PyInt(d.sign = 1, SubSeq(d.coef, 1, Len(d.coef) + d.exp))

\* types.py:73-80
from_decimal(value) == IntOfDecimal(MulPow10(value, Scale))

\* types.py:83-90
to_decimal(value) == DivPow10(DecimalOfInt(value), Scale)

\* Decimal literals used as inputs: coefficient digits and number of fractional digits
Dec(coef, frac) == [sign |-> 0, coef |-> coef, exp |-> -frac]


VARIABLES
    ws_session,       \* GraphQLClient._ws_session: None or the id of the stored session
    lockHolder,       \* GraphQLClient._ws_lock: the call inside the async-with block, or None
    lockWaiters,      \* GraphQLClient._ws_lock: calls suspended in acquire(), FIFO
    pc,               \* position of each subscribe call
    usedSession,      \* the session each call iterates on (read of _ws_session at line 36)
    connectAttempts,  \* number of connect_async calls made
    connectFailures,  \* number of connect_async calls that raised
    sessions,         \* ids of the sessions connect_async has returned
    transportUp,      \* whether the transport of the session is connected
    queue,            \* per subscription: events received by the transport, not yet pulled
    delivered,        \* per subscription: every event the transport has received
    result,           \* per subscription: the event held by the generator between pull and yield
    consumed,         \* per subscription: what the consumer has been handed
    cancelledBefore,  \* per subscription: length of consumed when some other call was cancelled
    gateWaited,       \* the calls that had to queue in acquire()
    api_key,          \* OdysseyClient._api_key (the empty str stands for None too)
    private_key,      \* OdysseyClient._private_key (the empty str stands for None too)
    signerSet,        \* whether OdysseyClient._signer was assigned
    signer,           \* the OdysseySigner: _env, _private_key, _account, _domain_data
    order,            \* the fields of a PlaceOrderInput object shared by the tasks
    ppc,              \* position of each place_order call
    sigLocal,         \* place_order's local raw_signature, <<>> while unassigned
    sent,             \* the mutations the execution collaborator was given
    cancelLog,        \* per cancel_order call executed: the place_order calls that had failed a check before it
    mutations,        \* number of assignments made to fields of the order
    signLog,          \* the sign_order calls made: order content and result
    failure,          \* per place_order call: <<>>, or what execute raised and what the caller got
    value,            \* the Decimal a caller converts
    fixed,            \* from_decimal(value) once computed, <<>> before
    back              \* to_decimal of that once computed, <<>> before

subVars == <<ws_session, lockHolder, lockWaiters, pc, usedSession, connectAttempts,
             connectFailures, sessions, transportUp, queue, delivered, result,
             consumed, cancelledBefore, gateWaited>>

orderVars == <<api_key, private_key, signerSet, signer, order, ppc, sigLocal, sent,
               cancelLog, mutations, signLog, failure>>

codecVars == <<value, fixed, back>>

vars == <<subVars, orderVars, codecVars>>

InitSub ==
    /\ ws_session = None
    /\ lockHolder = None
    /\ lockWaiters = <<>>
    /\ pc = [c \in Callers |-> "idle"]
    /\ usedSession = [c \in Callers |-> None]
    /\ connectAttempts = 0
    /\ connectFailures = 0
    /\ sessions = {}
    /\ transportUp = FALSE
    /\ queue = [c \in Callers |-> <<>>]
    /\ delivered = [c \in Callers |-> <<>>]
    /\ result = [c \in Callers |-> <<>>]
    /\ consumed = [c \in Callers |-> <<>>]
    /\ cancelledBefore = [c \in Callers |-> -1]
    /\ gateWaited = {}

(***************************************************************************)
(* asyncio.Lock as used by "async with self._ws_lock" (graphql.py:29)      *)
(***************************************************************************)
\* a lock that is taken whoever holds it
LockFree_Ignored == TRUE

LockFree == lockHolder = None /\ lockWaiters = <<>>

\* a subscribe that connects whatever the slot holds
SessionAbsent_Always == TRUE

\* graphql.py:30  "if self._ws_session is None"
SessionAbsent == ws_session = None

\* a lock that an exception leaves held
ReleasedHolder_Stuck == lockHolder

\* The lock after the holder leaves the async-with block: the first waiter, if
\* any, is woken and becomes the holder (FIFO hand-over).
ReleasedHolder == IF lockWaiters = <<>> THEN None ELSE Head(lockWaiters)

ReleasedWaiters == IF lockWaiters = <<>> THEN <<>> ELSE Tail(lockWaiters)

\* a release that forgets to wake the first waiter
ReleasedPc_NoWake(c, next) == [pc EXCEPT ![c] = next]

ReleasedPc(c, next) ==
    IF lockWaiters = <<>>
    THEN [pc EXCEPT ![c] = next]
    ELSE [pc EXCEPT ![c] = next, ![Head(lockWaiters)] = "locked"]

\* graphql.py:29  a consumer starts the generator; the body runs to acquire():
\* the call takes the lock when it is free, otherwise it queues behind the others.
Acquire(c) ==
    /\ pc[c] = "idle"
    /\ IF LockFree
       THEN /\ lockHolder' = c
            /\ pc' = [pc EXCEPT ![c] = "locked"]
            /\ UNCHANGED <<lockWaiters, gateWaited>>
       ELSE /\ lockWaiters' = Append(lockWaiters, c)
            /\ pc' = [pc EXCEPT ![c] = "waiting"]
            /\ gateWaited' = gateWaited \cup {c}
            /\ UNCHANGED lockHolder
    /\ UNCHANGED <<ws_session, usedSession, connectAttempts, connectFailures, sessions,
                   transportUp, queue, delivered, result, consumed, cancelledBefore>>
    /\ UNCHANGED <<orderVars, codecVars>>

\* graphql.py:30-33  inside the lock: connect only when the slot is empty.
CheckSession(c) ==
    /\ pc[c] = "locked"
    /\ lockHolder = c
    /\ IF SessionAbsent
       THEN /\ pc' = [pc EXCEPT ![c] = "connecting"]
            /\ connectAttempts' = connectAttempts + 1
       ELSE /\ pc' = [pc EXCEPT ![c] = "release"]
            /\ UNCHANGED connectAttempts
    /\ UNCHANGED <<ws_session, lockHolder, lockWaiters, usedSession, connectFailures,
                   sessions, transportUp, queue, delivered, result, consumed,
                   cancelledBefore, gateWaited>>
    /\ UNCHANGED <<orderVars, codecVars>>

\* graphql.py:31-33  connect_async returns a session, which is stored in the slot.
ConnectOk(c) ==
    /\ pc[c] = "connecting"
    /\ ws_session' = connectAttempts
    /\ sessions' = sessions \cup {connectAttempts}
    /\ transportUp' = TRUE
    /\ pc' = [pc EXCEPT ![c] = "release"]
    /\ UNCHANGED <<lockHolder, lockWaiters, usedSession, connectAttempts, connectFailures,
                   queue, delivered, result, consumed, cancelledBefore, gateWaited>>
    /\ UNCHANGED <<orderVars, codecVars>>

\* graphql.py:29-33  connect_async raises: the assignment does not happen, the
\* async-with block is left by the exception (the lock is released) and the
\* exception ends the generator, reaching the consumer.
ConnectFail(c) ==
    /\ pc[c] = "connecting"
    /\ connectFailures' = connectFailures + 1
    /\ lockHolder' = ReleasedHolder
    /\ lockWaiters' = ReleasedWaiters
    /\ pc' = ReleasedPc(c, "raised")
    /\ UNCHANGED <<ws_session, usedSession, connectAttempts, sessions, transportUp,
                   queue, delivered, result, consumed, cancelledBefore, gateWaited>>
    /\ UNCHANGED <<orderVars, codecVars>>

\* graphql.py:29,35  normal exit of the async-with block.
Release(c) ==
    /\ pc[c] = "release"
    /\ lockHolder = c
    /\ lockHolder' = ReleasedHolder
    /\ lockWaiters' = ReleasedWaiters
    /\ pc' = ReleasedPc(c, "subscribing")
    /\ UNCHANGED <<ws_session, usedSession, connectAttempts, connectFailures, sessions,
                   transportUp, queue, delivered, result, consumed, cancelledBefore, gateWaited>>
    /\ UNCHANGED <<orderVars, codecVars>>

\* graphql.py:35-38  the call reads the slot and starts iterating the session's
\* subscription; it holds no lock from here on.
StartIteration(c) ==
    /\ pc[c] = "subscribing"
    /\ usedSession' = [usedSession EXCEPT ![c] = ws_session]
    /\ pc' = [pc EXCEPT ![c] = "active"]
    /\ UNCHANGED <<ws_session, lockHolder, lockWaiters, connectAttempts, connectFailures,
                   sessions, transportUp, queue, delivered, result, consumed,
                   cancelledBefore, gateWaited>>
    /\ UNCHANGED <<orderVars, codecVars>>

(***************************************************************************)
(* Event delivery: the transport, GraphQLClient.subscribe's loop and the   *)
(* OdysseyClient.subscribe_ticker wrapper                                  *)
(***************************************************************************)
\* price strings the venue sends: 1.5 and 2 at venue scale, and one int() rejects
EventPrices ==
    { IntStr(PyInt(FALSE, <<1, 5>> \o Zeros(Scale - 1))),
      <<"1", ".", "5">> }

EventsReceived ==
    LET RECURSIVE Sum(_)
        Sum(S) == IF S = {} THEN 0
                  ELSE LET c == CHOOSE x \in S : TRUE
                       IN Len(delivered[c]) + Sum(S \ {c})
    IN Sum(Callers)

Iterating(c) == pc[c] \in {"active", "yielded"}

\* the transport receives an event of subscription c from the venue
TransportReceive(c, price) ==
    /\ Iterating(c)
    /\ transportUp
    /\ EventsReceived < MaxEvents
    /\ LET ev == [ticker |-> [price |-> price, timestamp |-> Len(delivered[c]) + 1]]
       IN /\ queue' = [queue EXCEPT ![c] = Append(queue[c], ev)]
          /\ delivered' = [delivered EXCEPT ![c] = Append(delivered[c], ev)]
    /\ UNCHANGED <<ws_session, lockHolder, lockWaiters, pc, usedSession, connectAttempts,
                   connectFailures, sessions, transportUp, result, consumed,
                   cancelledBefore, gateWaited>>
    /\ UNCHANGED <<orderVars, codecVars>>

\* a loop that hands out the newest result first
NextResult_Last(q) == q[Len(q)]

\* graphql.py:36-39  the loop takes the next result of the session's stream
NextResult(q) == Head(q)

RestResults(q) == Tail(q)

\* graphql.py:36-39  "async for result in ...: yield result"
Pull(c) ==
    /\ pc[c] = "active"
    /\ queue[c] # <<>>
    /\ result' = [result EXCEPT ![c] = <<NextResult(queue[c])>>]
    /\ queue' = [queue EXCEPT ![c] = RestResults(queue[c])]
    /\ pc' = [pc EXCEPT ![c] = "yielded"]
    /\ UNCHANGED <<ws_session, lockHolder, lockWaiters, usedSession, connectAttempts,
                   connectFailures, sessions, transportUp, delivered, consumed,
                   cancelledBefore, gateWaited>>
    /\ UNCHANGED <<orderVars, codecVars>>

\* types.py:101-106  TickerEvent.__init__
TickerEventOk(ev) == ParseInt(ev.price).ok

TickerEvent(ev) ==
    [price |-> to_decimal(ParseInt(ev.price).val), timestamp |-> ev.timestamp]

\* client.py:50-51  "yield TickerEvent(**event["ticker"])": the consumer is handed
\* the event, or the ValueError of a price that is no integer
WrapYield(c) ==
    /\ pc[c] = "yielded"
    /\ LET ev == result[c][1].ticker
       IN IF TickerEventOk(ev)
          THEN /\ consumed' = [consumed EXCEPT ![c] = Append(consumed[c], TickerEvent(ev))]
               /\ pc' = [pc EXCEPT ![c] = "active"]
          ELSE /\ pc' = [pc EXCEPT ![c] = "raised"]
               /\ UNCHANGED consumed
    /\ result' = [result EXCEPT ![c] = <<>>]
    /\ UNCHANGED <<ws_session, lockHolder, lockWaiters, usedSession, connectAttempts,
                   connectFailures, sessions, transportUp, queue, delivered,
                   cancelledBefore, gateWaited>>
    /\ UNCHANGED <<orderVars, codecVars>>

\* The consumer stops consuming (closes or drops the generator).  The generator
\* has no finally or except clause (graphql.py:26-39, client.py:40-51): nothing
\* of the client runs, only this call ends.
\* a generator that clears the slot when it is closed
SessionAfterCancel_Cleared == None

\* graphql.py:26-39  closing the generator runs no code: the slot keeps its value
SessionAfterCancel == ws_session

Cancel(c) ==
    /\ pc[c] = "active"
    /\ pc' = [pc EXCEPT ![c] = "cancelled"]
    /\ ws_session' = SessionAfterCancel
    /\ cancelledBefore' =
           [d \in Callers |->
               IF d # c /\ Iterating(d) /\ cancelledBefore[d] < 0
               THEN Len(consumed[d]) ELSE cancelledBefore[d]]
    /\ UNCHANGED <<lockHolder, lockWaiters, usedSession, connectAttempts,
                   connectFailures, sessions, transportUp, queue, delivered, result,
                   consumed, gateWaited>>
    /\ UNCHANGED <<orderVars, codecVars>>

\* The connection of an established session is lost.  No code of the client runs.
TransportDrop ==
    /\ ws_session # None
    /\ transportUp
    /\ transportUp' = FALSE
    /\ UNCHANGED <<ws_session, lockHolder, lockWaiters, pc, usedSession, connectAttempts,
                   connectFailures, sessions, queue, delivered, result, consumed,
                   cancelledBefore, gateWaited>>
    /\ UNCHANGED <<orderVars, codecVars>>

\* graphql.py:31-33  the session was opened with reconnecting=True: the session
\* reconnects its transport by itself.  No code of the client runs.
TransportReconnect ==
    /\ ws_session # None
    /\ ~transportUp
    /\ transportUp' = TRUE
    /\ UNCHANGED <<ws_session, lockHolder, lockWaiters, pc, usedSession, connectAttempts,
                   connectFailures, sessions, queue, delivered, result, consumed,
                   cancelledBefore, gateWaited>>
    /\ UNCHANGED <<orderVars, codecVars>>

\* a loop that empties the slot when the stream raises
SessionAfterFailure_Cleared == None

\* graphql.py:36-39  the loop has no handler: nothing is assigned to the slot
SessionAfterFailure == ws_session

\* graphql.py:36-39  the session's stream raises into the loop while the
\* connection is lost; the loop has no handler, so the generator ends with it.
IterationFails(c) ==
    /\ pc[c] = "active"
    /\ ~transportUp
    /\ pc' = [pc EXCEPT ![c] = "raised"]
    /\ ws_session' = SessionAfterFailure
    /\ UNCHANGED <<lockHolder, lockWaiters, usedSession, connectAttempts,
                   connectFailures, sessions, transportUp, queue, delivered, result,
                   consumed, cancelledBefore, gateWaited>>
    /\ UNCHANGED <<orderVars, codecVars>>

GateStep(c) ==
    \/ Acquire(c)
    \/ CheckSession(c)
    \/ ConnectOk(c)
    \/ ConnectFail(c)
    \/ Release(c)
    \/ StartIteration(c)

StreamStep(c) ==
    \/ \E price \in EventPrices : TransportReceive(c, price)
    \/ Pull(c)
    \/ WrapYield(c)
    \/ Cancel(c)
    \/ IterationFails(c)

(***************************************************************************)
(* Configuration, orders and the signer                                    *)
(***************************************************************************)
\* a configuration whose two networks share one domain
Environment_OneDomain ==
    [TESTNET |-> [name |-> "Hook", version |-> "1.0.0", chain_id |-> 4665,
                  verifyingContract |-> "0xF9Bd1BaB25442A3b6888f2086736C6aC76A4Cf4B"],
     MAINNET |-> [name |-> "Hook", version |-> "1.0.0", chain_id |-> 4665,
                  verifyingContract |-> "0xF9Bd1BaB25442A3b6888f2086736C6aC76A4Cf4B"]]

\* config.py:20-41
Environment ==
    [TESTNET |-> [name |-> "Hook", version |-> "1.0.0", chain_id |-> 46658378,
                  verifyingContract |-> "0x64247BeF0C0990aF63FCbdd21dc07aC2b251f500"],
     MAINNET |-> [name |-> "Hook", version |-> "1.0.0", chain_id |-> 4665,
                  verifyingContract |-> "0xF9Bd1BaB25442A3b6888f2086736C6aC76A4Cf4B"]]

Envs == {"TESTNET", "MAINNET"}

\* "if not x" on an Optional[str]: None and "" are both false
Truthy(x) == x # <<>>

\* str.removeprefix("0x")
RemovePrefix0x(k) ==
    IF Len(k) >= 2 /\ k[1] = "0" /\ k[2] = "x" THEN SubSeq(k, 3, Len(k)) ELSE k

\* signing.py:35-45  OdysseySigner.__init__
OdysseySigner(env, key) ==
    [env |-> env,
     private_key |-> RemovePrefix0x(key),
     account |-> RemovePrefix0x(key),
     domain_data |-> [name |-> Environment[env].name,
                      version |-> Environment[env].version,
                      chainId |-> Environment[env].chain_id,
                      verifyingContract |-> Environment[env].verifyingContract]]

\* the value of the signer variable of a client that never assigned _signer
NoSigner ==
    [env |-> "", private_key |-> <<>>, account |-> <<>>,
     domain_data |-> [name |-> "", version |-> "", chainId |-> 0, verifyingContract |-> ""]]

\* types.py:462-492  PlaceOrderInput.__init__; an Optional value is <<>> or <<v>>
PlaceOrderInput(a) ==
    [marketHash |-> a.marketHash,
     instrumentHash |-> a.instrumentHash,
     subaccount |-> IntStr(a.subaccount),
     orderType |-> a.orderType,
     direction |-> a.direction,
     size |-> IntStr(from_decimal(a.size)),
     timeInForce |-> a.timeInForce,
     nonce |-> IntStr(a.nonce),
     limitPrice |-> IF a.limitPrice # <<>>
                    THEN <<IntStr(from_decimal(a.limitPrice[1]))>> ELSE <<>>,
     volatilityBips |-> a.volatilityBips,
     expiration |-> a.expiration,
     postOnly |-> a.postOnly,
     reduceOnly |-> a.reduceOnly]

\* a direction code that does not tell BUY from SELL
DirectionCode_Const(d) == 0

\* signing.py:52
DirectionCode(d) == IF d = "BUY" THEN 0 ELSE 1

\* a counter taken from the number of calls made so far
CounterField_Calls == Len(signLog)

\* signing.py:59
CounterField == 0

\* the uint256 a decimal str is encoded as
EncodeUint(str) == ParseInt(str).val

\* signing.py:14-31  _types["Order"]
OrderSchema ==
    <<[name |-> "market", type |-> "bytes32"],
      [name |-> "instrumentType", type |-> "uint8"],
      [name |-> "instrumentId", type |-> "bytes32"],
      [name |-> "direction", type |-> "uint8"],
      [name |-> "maker", type |-> "uint256"],
      [name |-> "taker", type |-> "uint256"],
      [name |-> "amount", type |-> "uint256"],
      [name |-> "limitPrice", type |-> "uint256"],
      [name |-> "expiration", type |-> "uint256"],
      [name |-> "nonce", type |-> "uint256"],
      [name |-> "counter", type |-> "uint256"],
      [name |-> "postOnly", type |-> "bool"],
      [name |-> "reduceOnly", type |-> "bool"],
      [name |-> "allOrNothing", type |-> "bool"]>>

\* signing.py:48-63  the keys of message_data in the order the dict holds them
MessageKeys ==
    <<"market", "instrumentType", "instrumentId", "direction", "maker", "taker", "amount",
      "limitPrice", "expiration", "nonce", "counter", "postOnly", "reduceOnly",
      "allOrNothing">>

\* a message that leaves out the field no order argument feeds
MessageData_Omitting(o) ==
    [market |-> o.marketHash,
     instrumentType |-> 2,
     instrumentId |-> o.instrumentHash,
     direction |-> DirectionCode(o.direction),
     maker |-> EncodeUint(o.subaccount),
     taker |-> 0,
     amount |-> EncodeUint(o.size),
     limitPrice |-> IF o.limitPrice # <<>> THEN EncodeUint(o.limitPrice[1])
                    ELSE PyInt(FALSE, <<0>>),
     expiration |-> IF o.expiration # <<>> THEN o.expiration[1] ELSE 0,
     nonce |-> EncodeUint(o.nonce),
     counter |-> CounterField,
     postOnly |-> o.postOnly,
     reduceOnly |-> o.reduceOnly]

\* signing.py:48-63  message_data
MessageData(o) ==
    [market |-> o.marketHash,
     instrumentType |-> 2,
     instrumentId |-> o.instrumentHash,
     direction |-> DirectionCode(o.direction),
     maker |-> EncodeUint(o.subaccount),
     taker |-> 0,
     amount |-> EncodeUint(o.size),
     limitPrice |-> IF o.limitPrice # <<>> THEN EncodeUint(o.limitPrice[1])
                    ELSE PyInt(FALSE, <<0>>),
     expiration |-> IF o.expiration # <<>> THEN o.expiration[1] ELSE 0,
     nonce |-> EncodeUint(o.nonce),
     counter |-> CounterField,
     postOnly |-> o.postOnly,
     reduceOnly |-> o.reduceOnly,
     allOrNothing |-> FALSE]

\* signing.py:65-73  the typed-data document and its hash; the hash is taken as
\* injective, so the document stands for it
UnsignedHash(sg, o) == [domain |-> sg.domain_data, message |-> MessageData(o)]

\* a signature made with a key that is not the signer's
SignHash_OtherKey(sg, h) == [by |-> <<"0">>, over |-> h]

\* signing.py:74  the account's signature of a hash (signing is deterministic)
SignHash(sg, h) == [by |-> sg.account, over |-> h]

\* tests/test_signer.py:93  Account._recover_hash: the account whose key made the
\* signature when the signature is one of this hash, and some other account
\* otherwise
recover_hash(h, sig) == IF sig.over = h THEN sig.by ELSE <<"?">> \o sig.by

\* tests/test_signer.py:94  signer._account.address
Address(sg) == sg.account

\* signing.py:47-75  OdysseySigner.sign_order
sign_order(sg, o) ==
    [signature |-> SignHash(sg, UnsignedHash(sg, o)), hash |-> UnsignedHash(sg, o)]

\* signing.py:77-79  OdysseySigner.get_order_hash
get_order_hash(sg, o) == sign_order(sg, o).hash

\* tests/test_signer.py:25-47  the test key and the sample order
TestKey == <<"0", "x", "2", "8", "d", "9">>

SampleOrderArgs ==
    [marketHash |-> "0x2227a28199b649ce2995eb8a1b0d2b36116b7e1dddb3622d85860dc717df4305",
     instrumentHash |-> "0x194add7922e3fd9e6c17ca58efc31f97e6b891d13ea1919c751926daf98dd8a6",
     subaccount |-> PyInt(FALSE, <<3, 7>>),
     orderType |-> "LIMIT",
     direction |-> "BUY",
     size |-> Dec(<<1>>, 0),
     limitPrice |-> <<Dec(<<2>>, 0)>>,
     timeInForce |-> "GTC",
     nonce |-> PyInt(FALSE, <<0>>),
     volatilityBips |-> <<>>,
     expiration |-> <<>>,
     postOnly |-> FALSE,
     reduceOnly |-> FALSE]

\* the sizes a caller gives: 1 and 2
Sizes == {Dec(<<1>>, 0), Dec(<<2>>, 0)}

\* the sample order and the orders that differ from it in one argument
OrderArgs ==
    {SampleOrderArgs,
     [SampleOrderArgs EXCEPT !.size = Dec(<<2>>, 0)],
     [SampleOrderArgs EXCEPT !.limitPrice = <<>>],
     [SampleOrderArgs EXCEPT !.limitPrice = <<Dec(<<0>>, 0)>>],
     [SampleOrderArgs EXCEPT !.nonce = PyInt(FALSE, <<1>>)],
     [SampleOrderArgs EXCEPT !.direction = "SELL"],
     [SampleOrderArgs EXCEPT !.subaccount = PyInt(FALSE, <<3, 8>>)]}

\* client.py:26-37  OdysseyClient.__init__
InitClient(env, ak, pk) ==
    /\ api_key = ak
    /\ private_key = pk
    /\ signerSet = Truthy(pk)
    /\ signer = IF Truthy(pk) THEN OdysseySigner(env, pk) ELSE NoSigner

InitTasks ==
    /\ ppc = [t \in Tasks |-> "idle"]
    /\ sigLocal = [t \in Tasks |-> <<>>]
    /\ sent = <<>>
    /\ cancelLog = <<>>
    /\ mutations = 0
    /\ signLog = <<>>
    /\ failure = [t \in Tasks |-> <<>>]

(***************************************************************************)
(* OdysseyClient.place_order and cancel_order, GraphQLClient.execute       *)
(***************************************************************************)
\* client.py:245-248  the errors of place_order's checks
PlaceOrderErrors == {"APIKeyError", "PrivateKeyError"}

\* a check that lets every client sign
SigningKeyMissing_Never == FALSE

\* client.py:247  "if not self._private_key or not self._signer"
SigningKeyMissing == ~Truthy(private_key) \/ ~signerSet

\* client.py:244-267  the checks, the signature and the variables; the call then
\* awaits execute.  variables refers to the order object, it holds no copy.
PlaceOrder(t) ==
    /\ ppc[t] = "idle"
    /\ IF ~Truthy(api_key)
       THEN /\ ppc' = [ppc EXCEPT ![t] = "APIKeyError"]
            /\ UNCHANGED sigLocal
       ELSE IF SigningKeyMissing
       THEN /\ ppc' = [ppc EXCEPT ![t] = "PrivateKeyError"]
            /\ UNCHANGED sigLocal
       ELSE /\ sigLocal' = [sigLocal EXCEPT ![t] = <<sign_order(signer, order).signature>>]
            /\ ppc' = [ppc EXCEPT ![t] = "executing"]
    /\ UNCHANGED <<api_key, private_key, signerSet, signer, order, sent, cancelLog,
                   mutations, signLog, failure>>
    /\ UNCHANGED <<subVars, codecVars>>

\* graphql.py:20-24  after "async with self._http_client" the session is given
\* the variables: the order's fields are read now
ExecuteSend(t) ==
    /\ ppc[t] = "executing"
    /\ sent' = Append(sent, [orderInput |-> order, signature |-> sigLocal[t][1], task |-> t])
    /\ ppc' = [ppc EXCEPT ![t] = "awaiting"]
    /\ UNCHANGED <<api_key, private_key, signerSet, signer, order, sigLocal, cancelLog,
                   mutations, signLog, failure>>
    /\ UNCHANGED <<subVars, codecVars>>

\* client.py:268-269  execute returns
ExecuteReturn(t) ==
    /\ ppc[t] = "awaiting"
    /\ ppc' = [ppc EXCEPT ![t] = "done"]
    /\ UNCHANGED <<api_key, private_key, signerSet, signer, order, sigLocal, sent,
                   cancelLog, mutations, signLog, failure>>
    /\ UNCHANGED <<subVars, codecVars>>

\* what the execution collaborator raises: anything "except Exception" catches
ExecuteErrors ==
    {[type |-> "TransportQueryError", args |-> <<"insufficient margin">>],
     [type |-> "TransportServerError", args |-> <<"502">>]}

\* client.py:270-271  "except Exception: raise OdysseyAPIError"
Surfaced(e) == [type |-> "OdysseyAPIError", args |-> <<>>]

\* client.py:268-271  execute raises, before or after the request was given
ExecuteRaise(t, e) ==
    /\ ppc[t] \in {"executing", "awaiting"}
    /\ ppc' = [ppc EXCEPT ![t] = Surfaced(e).type]
    /\ failure' = [failure EXCEPT ![t] = <<[raised |-> e, surfaced |-> Surfaced(e)]>>]
    /\ UNCHANGED <<api_key, private_key, signerSet, signer, order, sigLocal, sent,
                   cancelLog, mutations, signLog>>
    /\ UNCHANGED <<subVars, codecVars>>

\* client.py:274-287  cancel_order, an operation that needs neither key, is executed
CancelOrder ==
    /\ Len(cancelLog) < MaxQueries
    /\ cancelLog' = Append(cancelLog, {t \in Tasks : ppc[t] \in PlaceOrderErrors})
    /\ UNCHANGED <<api_key, private_key, signerSet, signer, order, ppc, sigLocal, sent,
                   mutations, signLog, failure>>
    /\ UNCHANGED <<subVars, codecVars>>

\* tests/test_signer.py:102  a task assigns order.size = str(from_decimal(v));
\* PlaceOrderInput is a plain dataclass (types.py:446), its fields can be set
MutateSize(v) ==
    /\ mutations < MaxMutations
    /\ order.size # IntStr(from_decimal(v))
    /\ order' = [order EXCEPT !.size = IntStr(from_decimal(v))]
    /\ mutations' = mutations + 1
    /\ UNCHANGED <<api_key, private_key, signerSet, signer, ppc, sigLocal, sent,
                   cancelLog, signLog, failure>>
    /\ UNCHANGED <<subVars, codecVars>>

(***************************************************************************)
(* Calls of the signer                                                     *)
(***************************************************************************)
\* a caller builds another order
NewOrder(a) ==
    /\ order # PlaceOrderInput(a)
    /\ order' = PlaceOrderInput(a)
    /\ UNCHANGED <<api_key, private_key, signerSet, signer, ppc, sigLocal, sent,
                   cancelLog, mutations, signLog, failure>>
    /\ UNCHANGED <<subVars, codecVars>>

\* signing.py:47-75  a sign_order call on the order
SignOrder ==
    /\ Len(signLog) < MaxSignCalls
    /\ signLog' = Append(signLog, [order |-> order,
                                   signature |-> sign_order(signer, order).signature,
                                   hash |-> sign_order(signer, order).hash])
    /\ UNCHANGED <<api_key, private_key, signerSet, signer, order, ppc, sigLocal, sent,
                   cancelLog, mutations, failure>>
    /\ UNCHANGED <<subVars, codecVars>>

\* signing.py:77-79  a get_order_hash call on the order: a sign_order call of which
\* the caller keeps the hash
GetOrderHash ==
    /\ Len(signLog) < MaxSignCalls
    /\ signLog' = Append(signLog, [order |-> order,
                                   signature |-> sign_order(signer, order).signature,
                                   hash |-> get_order_hash(signer, order)])
    /\ UNCHANGED <<api_key, private_key, signerSet, signer, order, ppc, sigLocal, sent,
                   cancelLog, mutations, failure>>
    /\ UNCHANGED <<subVars, codecVars>>

\* no conversion is asked for
InitNoConversion ==
    /\ value = Dec(<<0>>, 0)
    /\ fixed = <<>>
    /\ back = <<>>

\* a client that is not used for orders
InitIdleClient ==
    /\ InitClient("MAINNET", <<>>, <<>>)
    /\ order = PlaceOrderInput(SampleOrderArgs)
    /\ InitTasks
    /\ InitNoConversion

Init == InitSub /\ InitIdleClient

Next ==
    \/ \E c \in Callers : GateStep(c)
    \/ \E c \in Callers : StreamStep(c)
    \/ TransportDrop
    \/ TransportReconnect

Spec == Init /\ [][Next]_vars

\* The gate alone, with the fairness of the event loop: a task that can run is
\* run (graphql.py:29-36 has no await between these steps that depends on the
\* venue; connect_async is given no fairness).
NextGate ==
    \/ \E c \in Callers : GateStep(c)
    \/ \E c \in Callers : Cancel(c)
    \/ \E c \in Callers : IterationFails(c)
    \/ TransportDrop
    \/ TransportReconnect

SpecGateLive ==
    /\ Init
    /\ [][NextGate]_vars
    /\ \A c \in Callers : /\ WF_vars(CheckSession(c))
                          /\ WF_vars(Release(c))
                          /\ WF_vars(StartIteration(c))

\* One client, its place_order calls, and a task that changes the order
InitOrder ==
    /\ InitSub
    /\ \E env \in Envs, ak \in {<<>>, <<"k">>}, pk \in {<<>>, TestKey} : InitClient(env, ak, pk)
    /\ order = PlaceOrderInput(SampleOrderArgs)
    /\ InitTasks
    /\ InitNoConversion

NextOrder ==
    \/ \E t \in Tasks : PlaceOrder(t)
    \/ \E t \in Tasks : ExecuteSend(t)
    \/ \E t \in Tasks : ExecuteReturn(t)
    \/ \E t \in Tasks, e \in ExecuteErrors : ExecuteRaise(t, e)
    \/ CancelOrder
    \/ \E v \in Sizes : MutateSize(v)

SpecOrder == InitOrder /\ [][NextOrder]_vars

\* One signer and the calls made on it
InitSign ==
    /\ InitSub
    /\ \E env \in Envs : InitClient(env, <<"k">>, TestKey)
    /\ \E a \in OrderArgs : order = PlaceOrderInput(a)
    /\ InitTasks
    /\ InitNoConversion

NextSign ==
    \/ \E a \in OrderArgs : NewOrder(a)
    \/ SignOrder
    \/ GetOrderHash

SpecSign == InitSign /\ [][NextSign]_vars

(***************************************************************************)
(* A caller builds an order, then signs it and places it                   *)
(***************************************************************************)
\* 1.0000000000000000019 and 2.0000000000000000019: 19 fractional digits
Excess(unit) == Dec(<<unit>> \o Zeros(Scale - 1) \o <<1, 9>>, Scale + 1)

\* types.py:446-461  arguments a caller can give the constructor: the sample
\* order, and orders that differ from it in size, kind or limit price
BuildArgs ==
    {SampleOrderArgs,
     [SampleOrderArgs EXCEPT !.size = Excess(1)],
     [SampleOrderArgs EXCEPT !.size = Dec(<<0>>, 0)],
     [SampleOrderArgs EXCEPT !.limitPrice = <<Excess(2)>>],
     [SampleOrderArgs EXCEPT !.limitPrice = <<>>],
     [SampleOrderArgs EXCEPT !.orderType = "MARKET"],
     [SampleOrderArgs EXCEPT !.orderType = "MARKET", !.limitPrice = <<>>]}

\* types.py:446-492  the caller builds the order it is going to use; value keeps
\* the size it gave
BuildOrder(a) ==
    /\ signLog = <<>>
    /\ sent = <<>>
    /\ \A t \in Tasks : ppc[t] = "idle"
    /\ order' = PlaceOrderInput(a)
    /\ value' = a.size
    /\ UNCHANGED <<api_key, private_key, signerSet, signer, ppc, sigLocal, sent,
                   cancelLog, mutations, signLog, failure>>
    /\ UNCHANGED <<subVars, fixed, back>>

InitBuild ==
    /\ InitSub
    /\ InitClient("TESTNET", <<"k">>, TestKey)
    /\ order = PlaceOrderInput(SampleOrderArgs)
    /\ InitTasks
    /\ value = SampleOrderArgs.size
    /\ fixed = <<>>
    /\ back = <<>>

NextBuild ==
    \/ \E a \in BuildArgs : BuildOrder(a)
    \/ SignOrder
    \/ \E t \in Tasks : PlaceOrder(t)
    \/ \E t \in Tasks : ExecuteSend(t)
    \/ \E t \in Tasks : ExecuteReturn(t)

SpecBuild == InitBuild /\ [][NextBuild]_vars

(***************************************************************************)
(* The fixed-point codec on its own: a caller converts a Decimal to the    *)
(* venue's integer and back                                                *)
(***************************************************************************)
\* coefficients of every length up to MaxDigits: 99..9 and 1234567890123..
Nines(len) == [i \in 1..len |-> 9]

Counting(len) == [i \in 1..len |-> i % 10]

\* the Decimals given to from_decimal: both signs, 0 to MaxFrac fractional digits
Decimals ==
    {[sign |-> sg, coef |-> co, exp |-> -fr] :
        sg \in {0, 1},
        co \in {Nines(len) : len \in 1..MaxDigits} \cup {Counting(len) : len \in 1..MaxDigits},
        fr \in 0..MaxFrac}

\* types.py:73-80  a from_decimal call
FromDecimal ==
    /\ fixed = <<>>
    /\ fixed' = <<from_decimal(value)>>
    /\ UNCHANGED <<value, back>>
    /\ UNCHANGED <<subVars, orderVars>>

\* types.py:83-90  a to_decimal call on the integer from_decimal returned
ToDecimal ==
    /\ fixed # <<>>
    /\ back = <<>>
    /\ back' = <<to_decimal(fixed[1])>>
    /\ UNCHANGED <<value, fixed>>
    /\ UNCHANGED <<subVars, orderVars>>

InitCodec ==
    /\ InitSub
    /\ InitClient("MAINNET", <<>>, <<>>)
    /\ order = PlaceOrderInput(SampleOrderArgs)
    /\ InitTasks
    /\ value \in Decimals
    /\ fixed = <<>>
    /\ back = <<>>

NextCodec ==
    \/ FromDecimal
    \/ ToDecimal

SpecCodec == InitCodec /\ [][NextCodec]_vars

(***************************************************************************)
(* Claims                                                                  *)
(***************************************************************************)
GatePcs == {"waiting", "locked", "connecting", "release", "subscribing"}

PastGate(c) == pc[c] \notin ({"idle"} \cup GatePcs)

\* C1 as stated: once every one of the N calls has passed the gate, exactly one
\* connect_async call has been made.
C1_ExactlyOneAttempt ==
    (\A c \in Callers : PastGate(c)) => connectAttempts = 1

\* C1 as amended: connect_async is called again only after a call of it failed
\* (so exactly once when the attempt succeeds), at most one call of it is in
\* progress, at most one session is ever created, and every call that iterates
\* does so on the session held in the slot.
C1_SingleFlight ==
    /\ connectAttempts <= connectFailures + 1
    /\ Cardinality({c \in Callers : pc[c] = "connecting"}) <= 1
    /\ Cardinality(sessions) <= 1
    /\ \A c \in Callers :
          pc[c] \in {"active", "yielded", "cancelled"}
              => usedSession[c] # None /\ usedSession[c] = ws_session
    /\ ((\A c \in Callers : PastGate(c)) /\ connectFailures = 0) => connectAttempts = 1

C1_Witness ==
    /\ \A c \in Callers : pc[c] = "active" /\ usedSession[c] = ws_session
    /\ Cardinality(gateWaited) = NumCallers - 1
    /\ connectAttempts = 1

\* C4: a connect_async call that ends either stored a session or raised to its
\* own subscribe call, with the gate released and the slot still empty; the gate
\* is never held by a call that has ended, the slot is empty exactly as long as
\* no attempt succeeded, and a call that finds the slot empty inside the gate
\* makes a new attempt.
C4_FailureLeavesGateRetryable ==
    /\ [](/\ lockHolder # None => pc[lockHolder] \in {"locked", "connecting", "release"}
          /\ \A i \in 1..Len(lockWaiters) : pc[lockWaiters[i]] = "waiting"
          /\ (ws_session = None) <=> (sessions = {}))
    /\ [][\A c \in Callers :
            /\ (pc[c] = "connecting" /\ pc'[c] # "connecting")
                  => \/ ws_session' # None /\ pc'[c] = "release"
                     \/ /\ ws_session' = None
                        /\ pc'[c] = "raised"
                        /\ lockHolder' # c
                        /\ connectFailures' = connectFailures + 1
            /\ (pc[c] = "locked" /\ ws_session = None /\ pc'[c] # "locked")
                  => pc'[c] = "connecting" /\ connectAttempts' = connectAttempts + 1]_vars

C4_Witness ==
    /\ connectFailures >= 1
    /\ \E c \in Callers : pc[c] = "raised"
    /\ \E c \in Callers : c \in gateWaited /\ pc[c] = "active" /\ usedSession[c] = ws_session

\* C5: when a consumer stops consuming, the session stays in the slot and open,
\* the other subscriptions keep their position, their pending and their received
\* events, the ended call holds no place in the gate, and another subscription
\* with a pending event can take it.
C5_CancelLeavesSession ==
    /\ [](\A c \in Callers :
            pc[c] = "cancelled"
               => /\ lockHolder # c
                  /\ ws_session # None
                  /\ \A d \in Callers \ {c} :
                        (pc[d] = "active" /\ queue[d] # <<>>) => ENABLED Pull(d))
    /\ [][\A c \in Callers :
            (pc[c] = "active" /\ pc'[c] = "cancelled")
               => /\ ws_session' = ws_session
                  /\ sessions' = sessions
                  /\ transportUp' = transportUp
                  /\ \A d \in Callers \ {c} :
                        /\ pc'[d] = pc[d]
                        /\ queue'[d] = queue[d]
                        /\ consumed'[d] = consumed[d]]_vars

C5_Witness ==
    \E c \in Callers, d \in Callers :
        /\ pc[c] = "cancelled"
        /\ pc[d] = "active"
        /\ cancelledBefore[d] >= 0
        /\ Len(consumed[d]) > cancelledBefore[d]
        /\ ws_session # None

\* C6: once a session is stored, every call that is still at the gate becomes
\* an active subscription.
C6_EveryCallBecomesActive ==
    \A c \in Callers :
        (pc[c] \in GatePcs /\ ws_session # None) ~> (pc[c] = "active")

C6_Witness ==
    /\ \A c \in Callers : pc[c] = "active"
    /\ gateWaited # {}
    /\ connectFailures = 0
    /\ lockHolder = None

\* C8: what a consumer has been handed is, event by event and in order, what the
\* transport received for its subscription, wrapped; the generator holds at most
\* one event, and while the subscription runs nothing is missing between what was
\* handed over, the event held and the events pending.
C8_OrderPreserved ==
    \A c \in Callers :
        /\ Len(consumed[c]) <= Len(delivered[c])
        /\ \A i \in 1..Len(consumed[c]) :
              consumed[c][i] = TickerEvent(delivered[c][i].ticker)
        /\ Len(result[c]) <= 1
        /\ Iterating(c) =>
              delivered[c] = SubSeq(delivered[c], 1, Len(consumed[c])) \o result[c] \o queue[c]

C8_Witness ==
    \E c \in Callers :
        /\ Len(consumed[c]) >= 2
        /\ consumed[c][1].timestamp = 1
        /\ consumed[c][2].timestamp = 2

\* C2: every mutation the execution collaborator was given carries the signature
\* of exactly the order fields given with it.
C2_SignatureCoversSentFields ==
    \A i \in 1..Len(sent) :
        sent[i].signature = sign_order(signer, sent[i].orderInput).signature


\* C3 as stated: on a client without a private key a place_order call that has
\* ended has ended with PrivateKeyError.
C3_AlwaysPrivateKeyError ==
    ~Truthy(private_key) =>
        \A t \in Tasks : ppc[t] \in {"idle", "PrivateKeyError"}

\* C3 as amended: on a client without a private key every place_order call ends
\* with PrivateKeyError, or with APIKeyError when the client has no API key
\* either; it makes no signature and gives the collaborator no mutation, and the
\* failing call leaves every field of the client as it was.
C3_NoKeyNoSignature ==
    /\ [](~Truthy(private_key) =>
            /\ \A t \in Tasks :
                  /\ ppc[t] \in {"idle"} \cup PlaceOrderErrors
                  /\ ppc[t] = "PrivateKeyError" => Truthy(api_key)
                  /\ ppc[t] = "APIKeyError" => ~Truthy(api_key)
                  /\ sigLocal[t] = <<>>
            /\ sent = <<>>)
    /\ [][\A t \in Tasks :
            (ppc[t] = "idle" /\ ppc'[t] \in PlaceOrderErrors)
               => UNCHANGED <<api_key, private_key, signerSet, signer, order, sent,
                              cancelLog, subVars>>]_vars

C3_Witness ==
    /\ ~Truthy(private_key)
    /\ \E t \in Tasks, i \in 1..Len(cancelLog) :
          t \in cancelLog[i] /\ ppc[t] = "PrivateKeyError"

\* C9: two sign_order calls on orders of equal content return the same
\* signature and hash, whatever calls were made between them, and a call
\* changes neither the signer nor the order.
C9_SignOrderDeterministic ==
    /\ [](\A i \in 1..Len(signLog), j \in 1..Len(signLog) :
            signLog[i].order = signLog[j].order
               => /\ signLog[i].signature = signLog[j].signature
                  /\ signLog[i].hash = signLog[j].hash)
    /\ [][signLog' # signLog => (signer' = signer /\ order' = order)]_vars

C9_Witness ==
    /\ Len(signLog) >= 3
    /\ signLog[1].order = signLog[3].order
    /\ signLog[2].order # signLog[1].order
    /\ signLog[1].hash = signLog[3].hash

OrderFields ==
    {"marketHash", "instrumentHash", "subaccount", "orderType", "direction", "size",
     "timeInForce", "nonce", "limitPrice", "volatilityBips", "expiration", "postOnly",
     "reduceOnly"}

ClaimedFields == {"size", "limitPrice", "nonce", "direction", "subaccount"}

DiffFields(o1, o2) == {f \in OrderFields : o1[f] # o2[f]}

LimitPriceOrZero(o) == IF o.limitPrice = <<>> THEN <<IntStr(PyInt(FALSE, <<0>>))>> ELSE o.limitPrice

\* C10 as stated: two orders that differ in exactly one of size, limit price,
\* nonce, direction and subaccount have different hashes.
C10_AnySingleFieldChangesHash ==
    \A i \in 1..Len(signLog), j \in 1..Len(signLog) :
        LET d == DiffFields(signLog[i].order, signLog[j].order)
        IN (Cardinality(d) = 1 /\ d \subseteq ClaimedFields)
              => signLog[i].hash # signLog[j].hash

\* C10 as amended: the same, an absent limit price counting as the limit price 0.
C10_SingleFieldChangesHash ==
    \A i \in 1..Len(signLog), j \in 1..Len(signLog) :
        LET d == DiffFields(signLog[i].order, signLog[j].order)
        IN (/\ Cardinality(d) = 1
            /\ d \subseteq ClaimedFields
            /\ LimitPriceOrZero(signLog[i].order) = LimitPriceOrZero(signLog[j].order)
                  => d # {"limitPrice"})
              => signLog[i].hash # signLog[j].hash

C10_Witness ==
    /\ Len(signLog) >= 3
    /\ DiffFields(signLog[1].order, signLog[2].order) = {"size"}
    /\ DiffFields(signLog[1].order, signLog[3].order) = {"limitPrice"}
    /\ signLog[1].order.limitPrice # <<>>
    /\ signLog[3].order.limitPrice # <<>>
    /\ signLog[1].hash # signLog[2].hash
    /\ signLog[1].hash # signLog[3].hash

\* C11: for every sign_order call, the returned signature is one over the hash
\* the same call returned, made with the key the signer was built with:
\* recovering from the returned hash and signature gives the address of the
\* signer's account, whose key is the client's private key without its prefix.
C11_SignatureRecoversToSigner ==
    \A i \in 1..Len(signLog) :
        /\ signLog[i].signature.over = signLog[i].hash
        /\ recover_hash(signLog[i].hash, signLog[i].signature) = Address(signer)
        /\ Address(signer) = RemovePrefix0x(private_key)

C11_Witness ==
    /\ Len(signLog) >= 2
    /\ signLog[1].order # signLog[2].order
    /\ recover_hash(signLog[2].hash, signLog[2].signature) = Address(signer)
    /\ recover_hash(signLog[1].hash, signLog[2].signature) # Address(signer)

RECURSIVE StripTrailing(_)
StripTrailing(d) ==
    IF Len(d.coef) > 1 /\ d.coef[Len(d.coef)] = 0
    THEN StripTrailing([d EXCEPT !.coef = SubSeq(d.coef, 1, Len(d.coef) - 1), !.exp = d.exp + 1])
    ELSE d

\* the number a Decimal denotes: equal Decimals have equal normal forms
Normal(d) ==
    IF IsZero(d.coef) THEN [sign |-> 0, coef |-> <<0>>, exp |-> 0] ELSE StripTrailing(d)

DecEq(a, b) == Normal(a) = Normal(b)

FracDigits(d) == IF d.exp < 0 THEN -d.exp ELSE 0

\* C12: for a Decimal with at most 18 fractional digits, to_decimal of its
\* from_decimal equals it, whatever its magnitude.
C12_RoundTripLossless ==
    (back # <<>> /\ FracDigits(value) <= Scale) => DecEq(back[1], value)

\* C13: a place_order call gives the execution collaborator at most one
\* mutation and signs at most once, and when execute raises, the caller gets the
\* failure as it was raised.
C13_FailureSurfacedAsRaised ==
    \A t \in Tasks :
        /\ Cardinality({i \in 1..Len(sent) : sent[i].task = t}) <= 1
        /\ failure[t] # <<>> =>
              /\ ppc[t] = failure[t][1].surfaced.type
              /\ failure[t][1].surfaced = failure[t][1].raised

\* C14: every hash a signer returns is made under the domain parameters of the
\* network it was built for, which no call changes; the same order signed with
\* the same key by a signer of the other network has another hash, and the
\* signature made for one network does not recover to the account from the
\* other network's hash.
C14_DomainFixedPerNetwork ==
    /\ [](\A i \in 1..Len(signLog) :
            /\ signLog[i].hash.domain =
                   [name |-> Environment[signer.env].name,
                    version |-> Environment[signer.env].version,
                    chainId |-> Environment[signer.env].chain_id,
                    verifyingContract |-> Environment[signer.env].verifyingContract]
            /\ \A e \in Envs \ {signer.env} :
                  LET other == OdysseySigner(e, private_key)
                      otherHash == sign_order(other, signLog[i].order).hash
                  IN /\ otherHash # signLog[i].hash
                     /\ otherHash.message = signLog[i].hash.message
                     /\ recover_hash(otherHash, signLog[i].signature) # Address(other))
    /\ [][signer' = signer]_vars

C14_Witness ==
    /\ Len(signLog) >= 2
    /\ signer.env = "TESTNET"
    /\ signLog[1].order # signLog[2].order
    /\ signLog[1].hash.domain.chainId = 46658378
    /\ signLog[2].hash.domain = signLog[1].hash.domain
    /\ sign_order(OdysseySigner("MAINNET", private_key), signLog[1].order).hash.domain.chainId = 4665

\* C15: an order whose size is negative or has more than 18 fractional digits
\* is never signed and never sent: building it fails.  (The claim says the same
\* of the limit price.)
C15_ExcessPrecisionNeverSigned ==
    (value.sign = 1 \/ FracDigits(value) > Scale) => (signLog = <<>> /\ sent = <<>>)

WellFormed(o) ==
    /\ ~ParseInt(o.size).val.neg
    /\ ~IsZero(ParseInt(o.size).val.mag)
    /\ o.orderType = "LIMIT" <=> o.limitPrice # <<>>

\* C16: every order given to sign_order, and every order place_order gives the
\* execution collaborator, has a size above 0 and has a limit price exactly
\* when its kind is LIMIT.
C16_SignedOrdersWellFormed ==
    /\ \A i \in 1..Len(signLog) : WellFormed(signLog[i].order)
    /\ \A i \in 1..Len(sent) : WellFormed(sent[i].orderInput)

\* C17: the slot is empty as long as no subscribe call has run and no
\* connect_async call was made; the only change the slot ever sees is from empty
\* to the session a connect_async call returned, so at most one session is ever
\* stored, and no subscribe call, failure, reconnect or cancellation clears,
\* replaces or ends a stored session.
C17_SlotSetAtMostOnce ==
    /\ [](/\ (\A c \in Callers : pc[c] = "idle") => ws_session = None
          /\ connectAttempts = 0 => ws_session = None
          /\ ws_session # None => sessions = {ws_session})
    /\ [][/\ ws_session # None => ws_session' = ws_session
          /\ sessions \subseteq sessions'
          /\ ws_session' # ws_session =>
                \E c \in Callers : pc[c] = "connecting" /\ pc'[c] = "release"]_vars

C17_Witness ==
    \E c \in Callers, d \in Callers :
        /\ pc[c] = "raised"
        /\ usedSession[c] # None
        /\ pc[d] = "cancelled"
        /\ d \in gateWaited
        /\ transportUp
        /\ ws_session = usedSession[c]

\* C18: the message of every sign_order call has exactly the fields of the Order
\* schema, in the schema's order, with: direction 0 for BUY and 1 for SELL, maker
\* the subaccount, taker 0, counter 0, instrumentType 2, amount the scaled size,
\* nonce the nonce, limitPrice and expiration 0 when absent, postOnly and
\* reduceOnly as given, allOrNothing false.
C18_MessageMatchesSchema ==
    /\ Len(MessageKeys) = Len(OrderSchema)
    /\ \A k \in 1..Len(OrderSchema) : MessageKeys[k] = OrderSchema[k].name
    /\ \A i \in 1..Len(signLog) :
          LET o == signLog[i].order
              m == signLog[i].hash.message
          IN /\ DOMAIN m = {OrderSchema[k].name : k \in 1..Len(OrderSchema)}
             /\ m.market = o.marketHash
             /\ m.instrumentType = 2
             /\ m.instrumentId = o.instrumentHash
             /\ o.direction = "BUY" => m.direction = 0
             /\ o.direction = "SELL" => m.direction = 1
             /\ IntStr(m.maker) = o.subaccount
             /\ m.taker = 0
             /\ IntStr(m.amount) = o.size
             /\ IntStr(m.limitPrice) = (IF o.limitPrice = <<>> THEN <<"0">> ELSE o.limitPrice[1])
             /\ m.expiration = (IF o.expiration = <<>> THEN 0 ELSE o.expiration[1])
             /\ IntStr(m.nonce) = o.nonce
             /\ m.counter = 0
             /\ m.postOnly = o.postOnly
             /\ m.reduceOnly = o.reduceOnly
             /\ m.allOrNothing = FALSE

C18_Witness ==
    /\ Len(signLog) >= 3
    /\ signLog[1].order.direction = "SELL"
    /\ signLog[1].hash.message.direction = 1
    /\ signLog[2].order.limitPrice = <<>>
    /\ signLog[2].hash.message.limitPrice = PyInt(FALSE, <<0>>)
    /\ signLog[3].order = PlaceOrderInput(SampleOrderArgs)
    /\ signLog[3].hash.message.amount = PyInt(FALSE, <<1>> \o Zeros(Scale))
    /\ signLog[3].hash.message.maker = PyInt(FALSE, <<3, 7>>)

\* x * 10^18 with the fractional part cut off, computed on the digits
ExactScaledTrunc(x) ==
    LET shift == x.exp + Scale
    IN IF shift >= 0 THEN PyInt(x.sign = 1, x.coef \o Zeros(shift))
       ELSE IF -shift >= Len(x.coef) THEN PyInt(FALSE, <<0>>)
       ELSE PyInt(x.sign = 1, SubSeq(x.coef, 1, Len(x.coef) + shift))

\* n / 10^18, every digit kept
ExactQuotient(n) == [sign |-> IF n.neg THEN 1 ELSE 0, coef |-> n.mag, exp |-> -Scale]

\* C19: from_decimal(x) is x * 10^18 with the fractional part cut off, for every
\* Decimal x, and to_decimal(n) is exactly n / 10^18, for every int n.
C19_TruncatesAndDividesExactly ==
    /\ fixed # <<>> => fixed[1] = ExactScaledTrunc(value)
    /\ back # <<>> => DecEq(back[1], ExactQuotient(fixed[1]))

InsideGate == {"locked", "connecting", "release"}

\* C20: at most one subscribe call is inside the establish-if-absent step, and
\* it is the holder of the gate; a call that is past the step, consuming or
\* ended, neither holds the gate nor queues for it; a queued call waits for a
\* call inside the step only; once a session is stored no call inside the step
\* waits for connect_async; and when no call is inside the step the gate is
\* free, however many subscriptions are running.
C20_GateOnlyAroundEstablish ==
    /\ Cardinality({c \in Callers : pc[c] \in InsideGate}) <= 1
    /\ \A c \in Callers :
          /\ pc[c] \in InsideGate <=> lockHolder = c
          /\ pc[c] = "waiting" <=> \E i \in 1..Len(lockWaiters) : lockWaiters[i] = c
          /\ pc[c] = "waiting" => lockHolder # None
    /\ ws_session # None => \A c \in Callers : pc[c] # "connecting"
    /\ (\A c \in Callers : pc[c] \notin InsideGate) => LockFree

C20_Witness ==
    \E c \in Callers, d \in Callers :
        /\ pc[c] = "active"
        /\ Len(consumed[c]) >= 1
        /\ queue[c] = <<>>
        /\ pc[d] = "locked"
        /\ d \notin gateWaited
        /\ lockHolder = d
        /\ ws_session # None
====
